---- MODULE Spec2Model ----
(***************************************************************************)
(* Model of scripts/extract_tarkov_market_maps.py: the run loop of main()  *)
(* and the selector probing / whole-document fallback of                   *)
(* extract_map_svg().                                                      *)
(*                                                                         *)
(* A serialized markup string is abstracted to the two things the code     *)
(* looks at: its character length (len) and its declaration structure      *)
(* (toks), a sequence over                                                 *)
(*   "D"  an XML declaration  <?xml version=... ?>                         *)
(*   "P"  text that begins with the five characters <?xml but is not a     *)
(*        declaration (for instance <?xml-stylesheet ... ?>)               *)
(*   "S"  any other text                                                   *)
(* A document is the sequence, in document order, of its svg elements;     *)
(* each element carries the set of selector patterns that match it.        *)
(***************************************************************************)
EXTENDS Integers, Sequences, FiniteSets, TLC

\* ------------------------------------------------------------ bounds ----
NumTargets == 2
MaxElems == 2
MaxMutations == 1
MaxRuns == 2

\* ------------------------------------------------- program constants ----
THRESHOLD == 10000
DeclLen == 39

MAPS ==
  << "GroundZero", "Factory", "Customs", "Woods", "Shoreline", "Interchange",
     "Reserve", "Lighthouse", "StreetsOfTarkov", "Labs", "Labyrinth" >>

\* variant: the list without the final unscoped pattern
svg_selectors_nosvg ==
  << "svg.svg-map", ".map-container svg", ".map-wrapper svg", "svg[viewBox]",
     "#map svg", ".leaflet-container svg", ".leaflet-container svg" >>

svg_selectors ==
  << "svg.svg-map", ".map-container svg", ".map-wrapper svg", "svg[viewBox]",
     "#map svg", ".leaflet-container svg", "svg" >>

None == [len |-> 0, toks |-> << >>, absent |-> TRUE]
NoFile == [len |-> 0, toks |-> << >>, exists |-> FALSE]

Targets == 1 .. NumTargets
Name(k) == MAPS[k]

\* ------------------------------------------------------ input domains ----
\* Sets of selector patterns one svg element can match; every svg element
\* matches the unscoped "svg" pattern.
MatchSets ==
  { {"svg"},
    {"svg.svg-map", "svg[viewBox]", "svg"},
    {".map-container svg", "svg"} }

Lens == {9999, 10000, 10001, 50000}

\* Declaration structures of a raw markup: none, one or two declarations,
\* leading or embedded, and a leading non-declaration <?xml... text.
RawShapes ==
  { <<"S">>, <<"D", "S">>, <<"D", "D", "S">>, <<"S", "D", "S">>,
    <<"S", "D", "D">>, <<"P", "S">> }

ExtractElems ==
  { [len |-> n, toks |-> <<"S">>, sels |-> m] : n \in Lens, m \in MatchSets }

\* Elements of the pages of a whole run: an icon, a map, and a map whose
\* markup starts with a declaration.
RunElems ==
  { [len |-> 9999, toks |-> <<"S">>, sels |-> {"svg"}],
    [len |-> 10001, toks |-> <<"S">>, sels |-> {"svg[viewBox]", "svg"}],
    [len |-> 10001, toks |-> <<"D", "S">>, sels |-> {"svg[viewBox]", "svg"}] }

\* Elements of the pages that exercise the normalisation before the write.
ShapeElems ==
  { [len |-> n, toks |-> t, sels |-> {"svg[viewBox]", "svg"}] :
      n \in {9999, 10001}, t \in RawShapes }

\* Elements client-side rendering may add
MutPool ==
  { [len |-> 50000, toks |-> <<"S">>, sels |-> {"svg.svg-map", "svg[viewBox]", "svg"}] }

SeqsUpTo(S, n) == UNION { [1 .. k -> S] : k \in 0 .. n }

\* ------------------------------------------------------------- state ----
VARIABLES
  pages,            \* what the remote site serves for each target
  pool,             \* elements client-side rendering may add to a document
  dom,              \* the document currently loaded in the page
  pc,               \* position of the script
  run,              \* number of the current invocation of the script
  dirExists,        \* OUTPUT_DIR exists
  files,            \* OUTPUT_DIR/<name>.svg, by target
  playwright,       \* "none", "started", "stopped"
  browser,          \* "none", "open", "closed"
  launches, contexts, closes,
  opAfterClose,     \* a page operation was issued on a closed browser
  i,                \* index of map_info in MAPS
  sel,              \* index of selector in svg_selectors
  svg_elements,     \* handles returned by query_selector_all
  idx,              \* index of svg_element in svg_elements
  svg_content,
  usedFallback,     \* the fallback evaluation ran in this call
  faulted,          \* a probe raised in this call
  mutations,        \* document changes during this call
  extracted_count,
  failed_maps,
  outcome,          \* per target, how its iteration of this run ended
  clean,            \* no fault and no document change in any invocation so far
  firstRun          \* files as the first invocation left them

vars ==
  << pages, pool, dom, pc, run, dirExists, files, playwright, browser,
     launches, contexts, closes, opAfterClose, i, sel, svg_elements, idx,
     svg_content, usedFallback, faulted, mutations, extracted_count,
     failed_maps, outcome, clean, firstRun >>

envVars == << pages, pool, run, firstRun >>
fsVars == << dirExists, files >>
browserVars == << playwright, browser, launches, contexts, closes >>
localVars == << sel, svg_elements, idx, usedFallback, faulted, mutations >>
probeVars == << localVars, svg_content >>
tallyVars == << extracted_count, failed_maps, outcome >>

\* ----------------------------------------------------- pure functions ----
\* variant: a size test that includes the threshold
AcceptsAtThreshold(content) == content.len >= THRESHOLD

\* len(content) > 10000
Accepts(content) == content.len > THRESHOLD

\* el => el.outerHTML
outerHTML(e) == [len |-> e.len, toks |-> e.toks, absent |-> FALSE]

\* page.query_selector_all(selector): matching elements in document order
query_selector_all(d, s) == SelectSeq(d, LAMBDA e : s \in e.sels)

\* the fallback script: first element of strictly greatest length
RECURSIVE LargestFrom(_, _)
LargestFrom(d, best) ==
  IF d = << >> THEN best
  ELSE LargestFrom(Tail(d),
                   IF Head(d).len > best.len THEN outerHTML(Head(d)) ELSE best)

\* variant: a fallback that applies the size threshold
LargestSvgAboveThreshold(d) ==
  IF LargestFrom(d, None).len > THRESHOLD THEN LargestFrom(d, None) ELSE None

LargestSvg(d) == LargestFrom(d, None)

\* svg_content.startswith('<?xml')
StartsWithXml(c) == c.toks # << >> /\ Head(c.toks) \in {"D", "P"}

\* variant: the declaration is prepended unconditionally
NormalizeAlways(c) ==
  [len |-> c.len + DeclLen, toks |-> <<"D">> \o c.toks, absent |-> FALSE]

\* prepend the declaration line unless the markup starts with <?xml
Normalize(c) ==
  IF StartsWithXml(c) THEN c
  ELSE [len |-> c.len + DeclLen, toks |-> <<"D">> \o c.toks, absent |-> FALSE]

\* open(output_path, "w") ... f.write(svg_content)
AsFile(c) == [len |-> c.len, toks |-> c.toks, exists |-> TRUE]

\* variant: the file is opened for appending
WriteAppend(old, c) ==
  [len |-> old.len + c.len, toks |-> old.toks \o c.toks, exists |-> TRUE]

WriteFile(old, c) == AsFile(c)

Truncated == [len |-> 0, toks |-> << >>, exists |-> TRUE]

\* ------------------------------------------------------ initial states ----
RunPages == SeqsUpTo(RunElems, 1)

ExtractPages == SeqsUpTo(ExtractElems, MaxElems)

ShapePages == SeqsUpTo(ShapeElems, 1)

Fresh ==
  /\ pc = "start"
  /\ dom = << >>
  /\ playwright = "none" /\ browser = "none"
  /\ launches = 0 /\ contexts = 0 /\ closes = 0
  /\ opAfterClose = FALSE
  /\ i = 0 /\ sel = 1 /\ svg_elements = << >> /\ idx = 1
  /\ svg_content = None
  /\ usedFallback = FALSE /\ faulted = FALSE /\ mutations = 0
  /\ extracted_count = 0 /\ failed_maps = << >>
  /\ outcome = [k \in Targets |-> "pending"]

\* The script is started against an output directory holding none of the
\* map files.
Init ==
  /\ pages \in [Targets -> RunPages]
  /\ pool = MutPool
  /\ run = 1
  /\ dirExists \in BOOLEAN
  /\ files = [k \in Targets |-> NoFile]
  /\ firstRun = [k \in Targets |-> NoFile]
  /\ clean = TRUE
  /\ Fresh

\* main() has reached the call of extract_map_svg for the first target.
InitTarget(P) ==
  /\ \E p \in P \cup {<< >>} :
       pages = [k \in Targets |-> IF k = 1 THEN p ELSE << >>]
  /\ pool = MutPool
  /\ run = 1
  /\ dirExists = TRUE
  /\ files = [k \in Targets |-> NoFile]
  /\ firstRun = [k \in Targets |-> NoFile]
  /\ clean = TRUE
  /\ pc = "goto"
  /\ dom = << >>
  /\ playwright = "started" /\ browser = "open"
  /\ launches = 1 /\ contexts = 1 /\ closes = 0
  /\ opAfterClose = FALSE
  /\ i = 1 /\ sel = 1 /\ svg_elements = << >> /\ idx = 1
  /\ svg_content = None
  /\ usedFallback = FALSE /\ faulted = FALSE /\ mutations = 0
  /\ extracted_count = 0 /\ failed_maps = << >>
  /\ outcome = [k \in Targets |-> "pending"]

\* ------------------------------------------------------------ helpers ----
\* a call on the page object
PageOp == opAfterClose' = (opAfterClose \/ browser # "open")

\* an exception leaves main(): the async-with block stops playwright and
\* the process ends
Propagate ==
  /\ pc' = "aborted"
  /\ playwright' = IF playwright = "started" THEN "stopped" ELSE playwright
  /\ clean' = FALSE

\* The iteration for map_info ends: the locals of extract_map_svg are
\* gone, and neither svg_content nor the loaded document is read again
\* before the next iteration replaces them.
CallEnds ==
  /\ sel' = 1 /\ svg_elements' = << >> /\ idx' = 1
  /\ usedFallback' = FALSE /\ faulted' = FALSE /\ mutations' = 0
  /\ svg_content' = None
  /\ dom' = << >>

\* except Exception in the loop body: record the map and go on
Recorded(kind) ==
  /\ CallEnds
  /\ failed_maps' = Append(failed_maps, Name(i))
  /\ outcome' = [outcome EXCEPT ![i] = kind]
  /\ extracted_count' = extracted_count
  /\ pc' = "loop"

\* except Exception in the selector loop: continue with the next selector
NextSelectorOrCheck ==
  /\ sel' = sel + 1
  /\ pc' = IF sel + 1 > Len(svg_selectors) THEN "check" ELSE "probe"

\* ------------------------------------------------ main(): set-up steps ----
Makedirs ==
  /\ pc = "start"
  /\ dirExists' = TRUE
  /\ pc' = "playwright"
  /\ UNCHANGED << envVars, dom, files, browserVars, opAfterClose, i, probeVars, tallyVars, clean >>

MakedirsFail ==
  /\ pc = "start"
  /\ Propagate
  /\ UNCHANGED << envVars, dom, fsVars, browser, launches, contexts, closes,
                  opAfterClose, i, probeVars, tallyVars >>

StartPlaywright ==
  /\ pc = "playwright"
  /\ playwright' = "started"
  /\ pc' = "launch"
  /\ UNCHANGED << envVars, dom, fsVars, browser, launches, contexts, closes,
                  opAfterClose, i, probeVars, tallyVars, clean >>

Launch ==
  /\ pc = "launch"
  /\ browser' = "open"
  /\ launches' = launches + 1
  /\ pc' = "new_context"
  /\ UNCHANGED << envVars, dom, fsVars, playwright, contexts, closes,
                  opAfterClose, i, probeVars, tallyVars, clean >>

NewContext ==
  /\ pc = "new_context"
  /\ contexts' = contexts + 1
  /\ pc' = "new_page"
  /\ UNCHANGED << envVars, dom, fsVars, playwright, browser, launches, closes,
                  opAfterClose, i, probeVars, tallyVars, clean >>

NewPage ==
  /\ pc = "new_page"
  /\ extracted_count' = 0
  /\ failed_maps' = << >>
  /\ pc' = "loop"
  /\ UNCHANGED << envVars, dom, fsVars, browserVars, opAfterClose, i, probeVars, outcome, clean >>

\* launch, new_context or new_page raises
SetupFail ==
  /\ pc \in {"launch", "new_context", "new_page"}
  /\ Propagate
  /\ UNCHANGED << envVars, dom, fsVars, browser, launches, contexts, closes,
                  opAfterClose, i, probeVars, tallyVars >>

\* --------------------------------------------------- main(): the loop ----
LoopNext ==
  /\ pc = "loop"
  /\ i < NumTargets
  /\ i' = i + 1
  /\ pc' = "goto"
  /\ UNCHANGED << envVars, dom, fsVars, browserVars, opAfterClose, probeVars, tallyVars, clean >>

LoopEnd ==
  /\ pc = "loop"
  /\ i = NumTargets
  /\ pc' = "close"
  /\ UNCHANGED << envVars, dom, fsVars, browserVars, opAfterClose, i, probeVars, tallyVars, clean >>
\* ------------------------------------------------- extract_map_svg() ----
\* page.goto(url, wait_until="networkidle"); page.wait_for_timeout(3000)
Goto ==
  /\ pc = "goto"
  /\ PageOp
  /\ dom' = pages[i]
  /\ sel' = 1 /\ svg_elements' = << >> /\ idx' = 1
  /\ svg_content' = None
  /\ usedFallback' = FALSE /\ faulted' = FALSE /\ mutations' = 0
  /\ pc' = "probe"
  /\ UNCHANGED << envVars, fsVars, browserVars, i, tallyVars, clean >>

\* variant: the navigation error is not caught by the loop body
GotoFailPropagates ==
  /\ pc = "goto"
  /\ PageOp
  /\ Propagate
  /\ outcome' = [outcome EXCEPT ![i] = "nav"]
  /\ UNCHANGED << envVars, dom, fsVars, browser, launches, contexts, closes, i,
                  probeVars, extracted_count, failed_maps >>

\* the navigation raises; main() records the map
GotoFail ==
  /\ pc = "goto"
  /\ PageOp
  /\ Recorded("nav")
  /\ clean' = FALSE
  /\ UNCHANGED << envVars, fsVars, browserVars, i >>

\* client-side rendering adds or removes an svg element between two awaits
DomMutate ==
  /\ pc \in {"probe", "elems", "check"}
  /\ mutations < MaxMutations
  /\ \/ \E e \in pool : dom' = Append(dom, e)
     \/ dom # << >> /\ dom' = SubSeq(dom, 1, Len(dom) - 1)
  /\ mutations' = mutations + 1
  /\ clean' = FALSE
  /\ UNCHANGED << envVars, pc, fsVars, browserVars, opAfterClose, i, sel,
                  svg_elements, idx, svg_content, usedFallback, faulted,
                  tallyVars >>

\* svg_elements = await page.query_selector_all(selector)
QuerySelectorAll ==
  /\ pc = "probe"
  /\ sel <= Len(svg_selectors)
  /\ PageOp
  /\ svg_elements' = query_selector_all(dom, svg_selectors[sel])
  /\ idx' = 1
  /\ pc' = "elems"
  /\ UNCHANGED << envVars, dom, fsVars, browserVars, i, sel, svg_content,
                  usedFallback, faulted, mutations, tallyVars, clean >>

\* query_selector_all raises: except Exception: continue
QueryFault ==
  /\ pc = "probe"
  /\ sel <= Len(svg_selectors)
  /\ PageOp
  /\ NextSelectorOrCheck
  /\ faulted' = TRUE
  /\ clean' = FALSE
  /\ UNCHANGED << envVars, dom, fsVars, browserVars, i, svg_elements, idx,
                  svg_content, usedFallback, mutations, tallyVars >>

\* content = await svg_element.evaluate(...); the size test; both breaks
EvaluateElement ==
  /\ pc = "elems"
  /\ idx <= Len(svg_elements)
  /\ PageOp
  /\ LET content == outerHTML(svg_elements[idx]) IN
       IF Accepts(content)
       THEN /\ svg_content' = content
            /\ pc' = "check"
            /\ idx' = idx
       ELSE /\ svg_content' = svg_content
            /\ pc' = "elems"
            /\ idx' = idx + 1
  /\ UNCHANGED << envVars, dom, fsVars, browserVars, i, sel, svg_elements,
                  usedFallback, faulted, mutations, tallyVars, clean >>

\* variant: the probe error leaves extract_map_svg
EvaluateFaultPropagates ==
  /\ pc = "elems"
  /\ idx <= Len(svg_elements)
  /\ PageOp
  /\ Recorded("eval")
  /\ clean' = FALSE
  /\ UNCHANGED << envVars, fsVars, browserVars, i >>

\* svg_element.evaluate raises: except Exception: continue
EvaluateFault ==
  /\ pc = "elems"
  /\ idx <= Len(svg_elements)
  /\ PageOp
  /\ NextSelectorOrCheck
  /\ faulted' = TRUE
  /\ clean' = FALSE
  /\ UNCHANGED << envVars, dom, fsVars, browserVars, i, svg_elements, idx,
                  svg_content, usedFallback, mutations, tallyVars >>

\* the inner loop ends without a break: next selector
NextSelector ==
  /\ pc = "elems"
  /\ idx > Len(svg_elements)
  /\ NextSelectorOrCheck
  /\ UNCHANGED << envVars, dom, fsVars, browserVars, opAfterClose, i,
                  svg_elements, idx, svg_content, usedFallback, faulted,
                  mutations, tallyVars, clean >>

\* if not svg_content: svg_content = await page.evaluate(<largest svg>)
Fallback ==
  /\ pc = "check"
  /\ svg_content.absent
  /\ PageOp
  /\ svg_content' = LargestSvg(dom)
  /\ usedFallback' = TRUE
  /\ pc' = "returned"
  /\ UNCHANGED << envVars, dom, fsVars, browserVars, i, sel, svg_elements, idx,
                  faulted, mutations, tallyVars, clean >>

\* variant: the evaluation error is not caught by the loop body
FallbackFaultPropagates ==
  /\ pc = "check"
  /\ svg_content.absent
  /\ PageOp
  /\ Propagate
  /\ outcome' = [outcome EXCEPT ![i] = "eval"]
  /\ UNCHANGED << envVars, dom, fsVars, browser, launches, contexts, closes, i,
                  probeVars, extracted_count, failed_maps >>

\* the fallback evaluation raises; main() records the map
FallbackFault ==
  /\ pc = "check"
  /\ svg_content.absent
  /\ PageOp
  /\ Recorded("eval")
  /\ clean' = FALSE
  /\ UNCHANGED << envVars, fsVars, browserVars, i >>

\* ------------------------------------- main(): after extract_map_svg ----
\* extract_map_svg has returned svg_content to main()
Returned == pc = "returned" \/ (pc = "check" /\ ~svg_content.absent)

\* if svg_content: normalise, write the file, count it
Save ==
  /\ Returned
  /\ ~svg_content.absent
  /\ files' = [files EXCEPT ![i] = WriteFile(@, Normalize(svg_content))]
  /\ extracted_count' = extracted_count + 1
  /\ outcome' = [outcome EXCEPT ![i] = "ok"]
  /\ pc' = "loop"
  /\ CallEnds
  /\ UNCHANGED << envVars, dirExists, browserVars, opAfterClose, i,
                  failed_maps, clean >>

\* variant: the write error is not caught by the loop body
SaveFailPropagates ==
  /\ Returned
  /\ ~svg_content.absent
  /\ \/ files' = files
     \/ files' = [files EXCEPT ![i] = Truncated]
  /\ Propagate
  /\ outcome' = [outcome EXCEPT ![i] = "write"]
  /\ UNCHANGED << envVars, dom, dirExists, browser, launches, contexts, closes,
                  opAfterClose, i, probeVars, extracted_count, failed_maps >>

\* open() or write() raises: the file is untouched or left truncated; the
\* except clause of the loop body records the map
SaveFail ==
  /\ Returned
  /\ ~svg_content.absent
  /\ \/ files' = files
     \/ files' = [files EXCEPT ![i] = Truncated]
  /\ Recorded("write")
  /\ clean' = FALSE
  /\ UNCHANGED << envVars, dirExists, browserVars, opAfterClose, i >>

\* variant: an absent result is not appended to failed_maps
RecordAbsentUncounted ==
  /\ pc = "returned"
  /\ svg_content.absent
  /\ CallEnds
  /\ outcome' = [outcome EXCEPT ![i] = "absent"]
  /\ pc' = "loop"
  /\ UNCHANGED << envVars, fsVars, browserVars, opAfterClose, i,
                  extracted_count, failed_maps, clean >>

\* else: the map is recorded as failed
RecordAbsent ==
  /\ pc = "returned"
  /\ svg_content.absent
  /\ Recorded("absent")
  /\ UNCHANGED << envVars, fsVars, browserVars, opAfterClose, i, clean >>

\* await browser.close(); leaving the async-with block; the summary
Close ==
  /\ pc = "close"
  /\ closes' = closes + 1
  /\ browser' = "closed"
  /\ playwright' = "stopped"
  /\ pc' = "done"
  /\ UNCHANGED << envVars, dom, fsVars, launches, contexts, opAfterClose, i,
                  probeVars, tallyVars, clean >>

\* browser.close() raises
CloseFail ==
  /\ pc = "close"
  /\ closes' = closes + 1
  /\ browser' \in {"open", "closed"}
  /\ Propagate
  /\ UNCHANGED << envVars, dom, fsVars, launches, contexts, opAfterClose, i,
                  probeVars, tallyVars >>

\* The script is started again; the site and the output directory are as
\* the previous invocation left them.  The invocations followed up are the
\* ones after an undisturbed run.
Rerun ==
  /\ pc = "done"
  /\ clean
  /\ run < MaxRuns
  /\ run' = run + 1
  /\ firstRun' = IF run = 1 THEN files ELSE firstRun
  /\ pc' = "start"
  /\ dom' = << >>
  /\ playwright' = "none" /\ browser' = "none"
  /\ launches' = 0 /\ contexts' = 0 /\ closes' = 0
  /\ opAfterClose' = FALSE
  /\ i' = 0 /\ sel' = 1 /\ svg_elements' = << >> /\ idx' = 1
  /\ svg_content' = None
  /\ usedFallback' = FALSE /\ faulted' = FALSE /\ mutations' = 0
  /\ extracted_count' = 0 /\ failed_maps' = << >>
  /\ outcome' = [k \in Targets |-> "pending"]
  /\ UNCHANGED << pages, pool, fsVars, clean >>

\* ------------------------------------------------------ specifications ----
\* one iteration of the loop of main(), from the call of extract_map_svg
TargetNext ==
  \/ Goto \/ GotoFail \/ DomMutate
  \/ QuerySelectorAll \/ QueryFault
  \/ EvaluateElement \/ EvaluateFault \/ NextSelector
  \/ Fallback \/ FallbackFault
  \/ Save \/ SaveFail \/ RecordAbsent

InitExtract == InitTarget(ExtractPages)

InitShapes == InitTarget(ShapePages)

Next ==
  \/ Makedirs \/ MakedirsFail \/ StartPlaywright \/ Launch \/ NewContext
  \/ NewPage \/ SetupFail \/ LoopNext \/ LoopEnd
  \/ Goto \/ GotoFail \/ DomMutate
  \/ QuerySelectorAll \/ QueryFault
  \/ EvaluateElement \/ EvaluateFault \/ NextSelector
  \/ Fallback \/ FallbackFault
  \/ Save \/ SaveFail \/ RecordAbsent
  \/ Close \/ CloseFail \/ Rerun

Spec == Init /\ [][Next]_vars

SpecExtract == InitExtract /\ [][TargetNext]_vars

SpecShapes == InitShapes /\ [][TargetNext]_vars
\* ------------------------------------------------- reference notions ----
Failures == {"nav", "eval", "write", "absent"}

\* targets whose iteration of the loop is over
Processed ==
  { k \in Targets :
      k < i \/ (k = i /\ pc \in {"loop", "close", "done", "aborted"}) }

\* names of the failed targets among the first k, in list order
RECURSIVE FailedNames(_)
FailedNames(k) ==
  IF k = 0 THEN << >>
  ELSE FailedNames(k - 1)
         \o (IF outcome[k] \in Failures THEN << Name(k) >> ELSE << >>)

RECURSIVE CountD(_)
CountD(t) ==
  IF t = << >> THEN 0
  ELSE (IF Head(t) = "D" THEN 1 ELSE 0) + CountD(Tail(t))

\* positions (selector, element) whose element is longer than the threshold
Hits(d) ==
  { p \in (1 .. Len(svg_selectors)) \X (1 .. Len(d)) :
      /\ svg_selectors[p[1]] \in d[p[2]].sels
      /\ d[p[2]].len > THRESHOLD }

Before(p, q) == p[1] < q[1] \/ (p[1] = q[1] /\ p[2] < q[2])

\* the first hit in selector-list order, then document order
FirstHit(d) == CHOOSE p \in Hits(d) : \A q \in Hits(d) \ {p} : Before(p, q)

MaxLen(d) == CHOOSE n \in { d[j].len : j \in 1 .. Len(d) } :
               \A j \in 1 .. Len(d) : d[j].len <= n

\* the call was not disturbed: no probe raised, the document did not change
Undisturbed == ~faulted /\ mutations = 0

\* ------------------------------------------------------------ claims ----
\* C1: a navigation error of one target never aborts the run; when target k
\* fails to navigate and every other target succeeds, against an output
\* directory that held no map file, the summary has N-1 successes, the
\* failure list is exactly the name of k, and N-1 files exist.
C1_PartialFailureIsolation ==
  \A k \in Targets :
    /\ (outcome[k] = "nav" /\ pc \in {"done", "aborted"})
         => \A j \in Targets : outcome[j] # "pending"
    /\ ( /\ run = 1 /\ pc = "done"
         /\ outcome[k] = "nav"
         /\ \A j \in Targets \ {k} : outcome[j] = "ok" )
         => /\ extracted_count = NumTargets - 1
            /\ failed_maps = << Name(k) >>
            /\ { j \in Targets : files[j].exists } = Targets \ {k}

C1_Witness ==
  /\ run = 1 /\ pc = "done"
  /\ outcome[1] = "nav"
  /\ \A j \in Targets \ {1} : outcome[j] = "ok"

\* C2: one browser and one context per run; once a target has been
\* started, whatever its and the other targets' outcomes, the run ends with
\* exactly one close, issued after the last target, and no page operation
\* follows the close.
C2_BrowserClosedOnce ==
  /\ launches <= 1 /\ contexts <= 1 /\ closes <= 1
  /\ ~opAfterClose
  /\ browser = "closed" => pc \in {"done", "aborted"}
  /\ closes = 1 => \A k \in Targets : outcome[k] # "pending"
  /\ (pc \in {"done", "aborted"} /\ \E k \in Targets : outcome[k] # "pending")
       => closes = 1 /\ launches = 1 /\ contexts = 1

C2_Witness ==
  /\ pc = "done" /\ closes = 1
  /\ outcome[1] = "write"
  /\ outcome[NumTargets] = "eval"

\* C3 as stated: a failure to create the directory or to write a file
\* aborts the run, is not recorded as a failure of the target, and no later
\* target is processed.
C3_FilesystemFailureAborts ==
  /\ (pc = "aborted" /\ playwright = "none")
       => launches = 0 /\ \A k \in Targets : outcome[k] = "pending"
  /\ \A k \in Targets :
       outcome[k] = "write"
         => /\ pc = "aborted"
            /\ \A n \in 1 .. Len(failed_maps) : failed_maps[n] # Name(k)
            /\ \A j \in Targets : j > k => outcome[j] = "pending"

\* C3 amended: a failure to create the directory aborts the run before the
\* browser is launched and before any target is processed; a failure to
\* write a target's file is recorded as a failure of that target and the
\* run goes on to the later targets.
C3_WriteFailureRecorded ==
  /\ (pc = "aborted" /\ playwright = "none")
       => /\ launches = 0 /\ i = 0
          /\ \A k \in Targets : outcome[k] = "pending" /\ files[k] = firstRun[k]
  /\ \A k \in Targets :
       outcome[k] = "write"
         => /\ \E n \in 1 .. Len(failed_maps) : failed_maps[n] = Name(k)
            /\ pc \in {"done", "aborted"}
                 => closes = 1 /\ \A j \in Targets : outcome[j] # "pending"

C3_Witness ==
  /\ pc = "done"
  /\ outcome[1] = "write"
  /\ outcome[NumTargets] = "ok"
  /\ failed_maps = << Name(1) >>

WrittenIsRawWithDeclarationIfMissing ==
  \A k \in Targets :
    (outcome[k] = "pending" /\ outcome'[k] = "ok")
      => LET raw == svg_content
             out == files'[k]
         IN /\ out.exists
            /\ Head(out.toks) \in {"D", "P"}
            /\ out.toks = (IF StartsWithXml(raw) THEN << >> ELSE <<"D">>)
                            \o raw.toks
            /\ out.len = raw.len + (IF StartsWithXml(raw) THEN 0 ELSE DeclLen)
            /\ (Head(out.toks) = "D" /\ CountD(out.toks) = 1)
                 <=> \/ (~StartsWithXml(raw) /\ CountD(raw.toks) = 0)
                     \/ (Head(raw.toks) = "D" /\ CountD(raw.toks) = 1)

C5_FirstAboveThresholdWins ==
  /\ (pc = "check" /\ ~svg_content.absent)
       => /\ svg_content.len > THRESHOLD
          /\ idx \in 1 .. Len(svg_elements)
          /\ svg_content = outerHTML(svg_elements[idx])
          /\ sel \in 1 .. Len(svg_selectors)
          /\ svg_selectors[sel] \in svg_elements[idx].sels
  /\ (pc \in {"check", "returned"} /\ Undisturbed /\ Hits(dom) # {})
       => /\ ~usedFallback
          /\ svg_content = outerHTML(dom[FirstHit(dom)[2]])
          /\ sel = FirstHit(dom)[1]

C5_Witness ==
  /\ pc = "check" /\ Undisturbed
  /\ Len(dom) = 2
  /\ dom[1].len = 50000 /\ dom[1].sels = {"svg"}
  /\ dom[2].len = 10001 /\ dom[2].sels = {".map-container svg", "svg"}
  /\ svg_content.len = 10001
  /\ sel = 2

\* C6: the fallback runs only when probing accepted nothing; it returns an
\* element of maximum length whatever that length is, and absent only for a
\* document without svg elements; undisturbed probing of a document none of
\* whose elements exceeds 10,000 characters reaches the fallback.
C6_FallbackLargest ==
  /\ (pc = "check" /\ ~svg_content.absent) => ~usedFallback /\ ~ENABLED Fallback
  /\ (pc = "check" /\ svg_content.absent) => ENABLED Fallback
  /\ pc = "returned"
       => /\ usedFallback
          /\ svg_content.absent <=> dom = << >>
          /\ dom # << >>
               => /\ svg_content.len = MaxLen(dom)
                  /\ \E j \in 1 .. Len(dom) : svg_content = outerHTML(dom[j])
  /\ (pc \in {"check", "returned"} /\ Undisturbed /\ Hits(dom) = {})
       => (pc = "check" /\ svg_content.absent) \/ usedFallback

C6_Witness ==
  /\ pc = "returned" /\ usedFallback /\ Undisturbed
  /\ Len(dom) = 2
  /\ dom[1].len = 10000 /\ dom[2].len = 9999
  /\ dom[1].sels = {"svg.svg-map", "svg[viewBox]", "svg"}
  /\ svg_content.len = 10000

\* C7: a second undisturbed run against the same pages leaves every output
\* file as the first run left it.
C7_RerunLeavesFilesUnchanged ==
  (run >= 2 /\ clean) => files = firstRun

C7_Witness ==
  /\ run = 2 /\ clean /\ pc = "done"
  /\ files[1].exists /\ files[1].toks = <<"D", "S">>
  /\ extracted_count = NumTargets

\* a step taken while probing, and in particular one that raises
ProbeStepStaysInCall ==
  pc \in {"probe", "elems"}
    => /\ pc' \in {"probe", "elems", "check"}
       /\ outcome' = outcome /\ failed_maps' = failed_maps
       /\ (faulted' /\ ~faulted)
            => /\ sel' = sel + 1
               /\ pc' = (IF sel = Len(svg_selectors) THEN "check" ELSE "probe")
               /\ svg_content' = svg_content

\* C8: a fault while probing a selector does not end the extraction of the
\* target: the step that raises moves on to the next selector pattern (or,
\* after the last one, to the fallback test), nothing is recorded for the
\* target, and an element accepted afterwards is still returned.
C8_ProbeFaultSkipsSelector ==
  /\ [][ProbeStepStaysInCall]_vars
  /\ []( (faulted /\ pc = "check")
           => IF svg_content.absent THEN ENABLED Fallback
              ELSE svg_content.len > THRESHOLD /\ ENABLED Save )

C8_Witness ==
  /\ faulted /\ mutations = 0
  /\ pc = "check"
  /\ ~svg_content.absent
  /\ sel = Len(svg_selectors)
  /\ Len(dom) = 2 /\ svg_content = outerHTML(dom[2])

\* C9: at every point the success count plus the number of recorded
\* failures is the number of targets processed; the successes are exactly
\* the targets whose file was written, the failure list is the failed
\* targets in list order, and at the end the two add up to N.
C9_Accounting ==
  pc \notin {"start", "playwright", "launch", "new_context", "new_page"}
    => /\ \A k \in Targets : outcome[k] # "pending" <=> k \in Processed
       /\ extracted_count + Len(failed_maps) = Cardinality(Processed)
       /\ extracted_count = Cardinality({ k \in Targets : outcome[k] = "ok" })
       /\ failed_maps = FailedNames(NumTargets)
       /\ \A k \in Targets :
            outcome[k] = "ok" => files[k].exists /\ StartsWithXml(files[k])
       /\ pc = "done" => extracted_count + Len(failed_maps) = NumTargets

C9_Witness ==
  /\ pc = "done"
  /\ extracted_count >= 1
  /\ outcome[1] = "absent"
  /\ failed_maps = << Name(1) >>

\* C10: when the call is undisturbed, markup returned by the fallback is at
\* most 10,000 characters long, and a document with an svg element longer
\* than 10,000 characters is resolved by probing, without the fallback.
C10_FallbackOnlyReturnsSmall ==
  /\ (pc = "returned" /\ Undisturbed) => svg_content.len <= THRESHOLD
  /\ ( /\ pc \in {"check", "returned"} /\ Undisturbed
       /\ \E j \in 1 .. Len(dom) : dom[j].len > THRESHOLD )
       => ~usedFallback /\ ~svg_content.absent

C10_Witness ==
  /\ pc = "returned" /\ usedFallback /\ Undisturbed
  /\ svg_content.len = 10000
  /\ Len(dom) = 2 /\ dom[2].len = 10000 /\ dom[2].sels = {"svg"}
====
